---------------------------- MODULE Spec2Model ----------------------------
(***************************************************************************)
(* A model of argparse_gen: the flag-naming pass of ArgparseGen.as_list,   *)
(* ParamDef.as_dict, the line wrapping of utils.str_as_arg and the         *)
(* docstring scan of ArgparseGen._get_help_dict.                           *)
(*                                                                         *)
(* Text is a sequence of one-character strings, so that slicing, length    *)
(* and concatenation are computed the way Python computes them.            *)
(***************************************************************************)
EXTENDS Integers, Sequences, FiniteSets, TLC

VARIABLES
    \* ---- ArgparseGen.as_list / ParamDef.set_names
    params,         \* inspect.signature(obj).parameters.values(): <<[name, kind]>>
    skip_private,   \* self.skip_private
    result,         \* the list of ParamDef built by as_list: <<[name, kind, names]>>
    single_chars,   \* the shared set of claimed characters
    queue,          \* what is left of sorted(result, key=len(name)): indices into result
    pcL,            \* "off" | "start" | "naming" | "done"
    \* ---- ParamDef.as_dict
    param,          \* the inspected parameter: [kind, default, annotation]
    help_str,       \* ParamDef.help_str
    dict,           \* the dictionary as_dict returns
    pcD,            \* "off" | "start" | "done"
    \* ---- utils.str_as_arg
    name,           \* argument name
    value,          \* argument value
    max_width,      \* argument max_width
    out,            \* [kind |-> "text" | "ValueError" | "IndexError", text |-> ...]
    pcW,            \* "off" | "start" | "done"
    \* ---- ArgparseGen._get_help_dict
    anchored,       \* TRUE: the default param_regex; FALSE: the same without "^"
    isclass,        \* inspect.isclass(obj)
    own_doc,        \* obj.__doc__.split("\n"), <<>> when obj.__doc__ is None or ""
    init_doc,       \* obj.__init__.__doc__ likewise
    frame,          \* "own": scanning obj; "init": in the recursive call on obj.__init__
    doc,            \* the lines of the frame being scanned
    idx,            \* number of lines of doc already consumed
    scan,           \* [result, curr_name, curr_help] of the frame being scanned
    own_result,     \* the caller's result while the recursive call runs
    pcH             \* "off" | "start" | "scan" | "scanned" | "done"

varsL == <<params, skip_private, result, single_chars, queue, pcL>>
varsD == <<param, help_str, dict, pcD>>
varsW == <<name, value, max_width, out, pcW>>
varsH == <<anchored, isclass, own_doc, init_doc, frame, doc, idx, scan,
           own_result, pcH>>
vars == <<varsL, varsD, varsW, varsH>>

-----------------------------------------------------------------------------
(* Bounds *)

MaxParams == 3

MaxValueLen == 7

MaxWidth == 13

MaxDocLines == 4

MaxInitLines == 2

-----------------------------------------------------------------------------
(* Generic helpers *)

Range(s) == {s[i] : i \in 1..Len(s)}

Max(a, b) == IF a >= b THEN a ELSE b

EmptyDict == [k \in {} |-> ""]

\* d[k] = v on a Python dict
Put(d, k, v) == [x \in (DOMAIN d) \cup {k} |-> IF x = k THEN v ELSE d[x]]

\* d.update(e)
Update(d, e) ==
    [x \in (DOMAIN d) \cup (DOMAIN e) |-> IF x \in DOMAIN e THEN e[x] ELSE d[x]]

\* All sequences over S of length at most n
SeqsUpTo(S, n) == UNION {[1..k -> S] : k \in 0..n}

-----------------------------------------------------------------------------
(* ArgparseGen.as_list and ParamDef.set_names *)

POSITIONAL_ONLY == 0
POSITIONAL_OR_KEYWORD == 1
VAR_POSITIONAL == 2
KEYWORD_ONLY == 3
VAR_KEYWORD == 4

Kinds == {POSITIONAL_ONLY, POSITIONAL_OR_KEYWORD, VAR_POSITIONAL,
          KEYWORD_ONLY, VAR_KEYWORD}

\* Each operation is checked on its own: the other operations' variables rest.
IdleL ==
    /\ params = <<>>
    /\ skip_private = TRUE
    /\ result = <<>>
    /\ single_chars = {}
    /\ queue = <<>>
    /\ pcL = "off"

IdleD ==
    /\ param = [kind |-> POSITIONAL_ONLY, default |-> "empty", annotation |-> "empty"]
    /\ help_str = "None"
    /\ dict = EmptyDict
    /\ pcD = "off"

IdleW ==
    /\ name = <<>>
    /\ value = <<>>
    /\ max_width = 0
    /\ out = [kind |-> "none", text |-> <<>>]
    /\ pcW = "off"

IdleH ==
    /\ anchored = TRUE
    /\ isclass = FALSE
    /\ own_doc = <<>>
    /\ init_doc = <<>>
    /\ frame = "own"
    /\ doc = <<>>
    /\ idx = 0
    /\ scan = [result |-> EmptyDict, curr_name |-> <<>>, curr_help |-> <<>>]
    /\ own_result = EmptyDict
    /\ pcH = "off"

ParamNames ==
    { <<"a">>, <<"b">>, <<"a", "b">>, <<"a", "c">>, <<"b", "a">>,
      <<"a", "b", "c">>, <<"_", "a">> }

\* What Python accepts as a signature: distinct names, kinds in declaration
\* order, at most one *args and one **kwargs.
IsSignature(ps) ==
    /\ \A i, j \in 1..Len(ps) : i < j =>
          /\ ps[i].name # ps[j].name
          /\ ps[i].kind <= ps[j].kind
          /\ ps[i].kind = ps[j].kind =>
                ps[i].kind \notin {VAR_POSITIONAL, VAR_KEYWORD}

\* the signatures of at most n parameters, built one parameter at a time
RECURSIVE SignaturesUpTo(_)
SignaturesUpTo(n) ==
    IF n = 0 THEN {<<>>}
    ELSE LET shorter == SignaturesUpTo(n - 1)
         IN  shorter \cup
             {ps \in {Append(s, p) : s \in shorter,
                                     p \in [name : ParamNames, kind : Kinds]} :
                 IsSignature(ps)}

Signatures == SignaturesUpTo(MaxParams)

\* The filter of the list comprehension in as_list
Eligible(p, skip) ==
    /\ ~(skip /\ p.name[1] = "_")
    /\ p.kind \in {POSITIONAL_ONLY, POSITIONAL_OR_KEYWORD, KEYWORD_ONLY}

RECURSIVE BuildResult(_, _)
BuildResult(ps, skip) ==
    IF ps = <<>> THEN <<>>
    ELSE LET rest == BuildResult(Tail(ps), skip)
             p == Head(ps)
         IN  IF Eligible(p, skip)
             THEN <<[name |-> p.name, kind |-> p.kind, names |-> <<>>]>> \o rest
             ELSE rest

\* sorted(..., key=len(name)) is stable: an element goes after every element
\* already placed whose key is not larger.
RECURSIVE InsertByLen(_, _, _)
InsertByLen(sorted, i, res) ==
    IF sorted = <<>> THEN <<i>>
    ELSE IF Len(res[Head(sorted)].name) <= Len(res[i].name)
         THEN <<Head(sorted)>> \o InsertByLen(Tail(sorted), i, res)
         ELSE <<i>> \o sorted

RECURSIVE SortPrefix(_, _)
SortPrefix(res, n) ==
    IF n = 0 THEN <<>> ELSE InsertByLen(SortPrefix(res, n - 1), n, res)

SignatureOrder(res) == [i \in 1..Len(res) |-> i]

SortedByLen(res) == SortPrefix(res, Len(res))

\* ParamDef.set_names: the new [names, single_chars]
SetNamesNoClaimCheck(p, chars) ==
    IF p.kind = POSITIONAL_ONLY
    THEN [names |-> <<p.name>>, chars |-> chars]
    ELSE IF Len(p.name) = 1
         THEN [names |-> << <<"-">> \o p.name >>, chars |-> chars \cup {p.name[1]}]
         ELSE [names |-> << <<"-", p.name[1]>>, <<"-", "-">> \o p.name >>,
               chars |-> chars \cup {p.name[1]}]

set_names(p, chars) ==
    IF p.kind = POSITIONAL_ONLY
    THEN [names |-> <<p.name>>, chars |-> chars]
    ELSE IF Len(p.name) = 1
         THEN [names |-> << <<"-">> \o p.name >>, chars |-> chars \cup {p.name[1]}]
         ELSE IF p.name[1] \notin chars
              THEN [names |-> << <<"-", p.name[1]>>, <<"-", "-">> \o p.name >>,
                    chars |-> chars \cup {p.name[1]}]
              ELSE [names |-> << <<"-", "-">> \o p.name >>, chars |-> chars]

StartL ==
    /\ params \in Signatures
    /\ skip_private \in BOOLEAN
    /\ result = <<>>
    /\ single_chars = {}
    /\ queue = <<>>
    /\ pcL = "start"

\* as_list up to the loop: build result, sort it
AsListBuild ==
    /\ pcL = "start"
    /\ result' = BuildResult(params, skip_private)
    /\ queue' = SortedByLen(result')
    /\ single_chars' = {}
    /\ pcL' = "naming"
    /\ UNCHANGED <<params, skip_private, varsD, varsW, varsH>>

\* one iteration of the loop: param_def.set_names(single_chars)
AsListSetNames ==
    /\ pcL = "naming"
    /\ queue # <<>>
    /\ LET i == Head(queue)
           r == set_names(result[i], single_chars)
       IN  /\ result' = [result EXCEPT ![i].names = r.names]
           /\ single_chars' = r.chars
    /\ queue' = Tail(queue)
    /\ UNCHANGED <<params, skip_private, pcL, varsD, varsW, varsH>>

\* return result
AsListReturn ==
    /\ pcL = "naming"
    /\ queue = <<>>
    /\ pcL' = "done"
    /\ UNCHANGED <<params, skip_private, result, single_chars, queue,
                   varsD, varsW, varsH>>

NextL == AsListBuild \/ AsListSetNames \/ AsListReturn


\* Two flag tokens at different places of the returned list
Places == {pl \in (1..Len(result)) \X (1..2) : pl[2] <= Len(result[pl[1]].names)}

TokenAt(pl) == result[pl[1]].names[pl[2]]

NonPositional(i) == result[i].kind # POSITIONAL_ONLY

\* j is handed to set_names before i: shorter name, or same length and earlier
\* in the signature
ProcessedBefore(j, i) ==
    \/ Len(result[j].name) < Len(result[i].name)
    \/ Len(result[j].name) = Len(result[i].name) /\ j < i

ShortFlag(i) == <<"-", result[i].name[1]>>

LongFlag(i) == <<"-", "-">> \o result[i].name

\* C1: the flag tokens of all returned ParamDefs are pairwise distinct, within
\* one ParamDef and across ParamDefs, whatever the kinds, name lengths and
\* signature order of the eligible parameters.
C1_FlagsDistinct ==
    \A p1, p2 \in Places : p1 # p2 => TokenAt(p1) # TokenAt(p2)

\* A finished run with two named parameters sharing a first character, the
\* longer one first in the signature, next to a positional-only parameter.
C1_Witness ==
    /\ pcL = "done"
    /\ \E i, j, k \in 1..Len(result) :
          /\ i < j
          /\ NonPositional(i) /\ NonPositional(j) /\ ~NonPositional(k)
          /\ result[i].name[1] = result[j].name[1]
          /\ Len(result[i].name) > Len(result[j].name)
          /\ Len(result[i].names) = 1

\* C2: names are decided in ascending name length, ties in signature order: a
\* one-character named parameter gets exactly -<name>; a longer one gets
\* [-<c>, --<name>] iff no named parameter processed before it claimed c, and
\* [--<name>] otherwise.
C2_LengthOrderNaming ==
    pcL = "done" =>
        \A i \in 1..Len(result) : NonPositional(i) =>
            IF Len(result[i].name) = 1
            THEN result[i].names = <<ShortFlag(i)>>
            ELSE IF \E j \in 1..Len(result) :
                        /\ NonPositional(j)
                        /\ ProcessedBefore(j, i)
                        /\ ShortFlag(i) \in Range(result[j].names)
                 THEN result[i].names = <<LongFlag(i)>>
                 ELSE result[i].names = <<ShortFlag(i), LongFlag(i)>>

\* "ab" before "a" in the signature: "a" still claims the character first.
C2_Witness ==
    /\ pcL = "done"
    /\ \E i, j \in 1..Len(result) :
          /\ i < j
          /\ NonPositional(i) /\ NonPositional(j)
          /\ result[i].name = <<"a", "b">>
          /\ result[j].name = <<"a">>
          /\ result[i].names = << <<"-", "-", "a", "b">> >>
          /\ result[j].names = << <<"-", "a">> >>

-----------------------------------------------------------------------------
(* ParamDef.as_dict and ParamDef._handle_annotation *)

\* inspect.Parameter.empty, True, False, the int 1 (equal to True, not True),
\* None, a member of the annotated enumeration
Defaults == {"empty", "True", "False", "1", "None", "member"}

\* inspect.Parameter.empty (a class), three plain types, Literal[True, False],
\* Literal[1, 2], Literal[1, "x"], an enum.Enum subclass, and an annotation
\* that is no type (a string or a generic alias)
Annotations == {"empty", "bool", "int", "str", "LiteralBool", "LiteralInt",
                "LiteralMixed", "Enum", "nontype"}

HelpStrs == {"None", "", "text"}

\* EnumValue(value), by the repr it renders
EnumValue(v) ==
    CASE v = "True" -> "EnumValue(True)"
      [] v = "False" -> "EnumValue(False)"
      [] v = "1" -> "EnumValue(1)"
      [] v = "None" -> "EnumValue(None)"
      [] OTHER -> "EnumValue(member)"

\* the choices of _handle_annotation, "none" for None
ChoicesOf(annotation) ==
    CASE annotation \in {"LiteralBool", "LiteralInt", "LiteralMixed"} -> "literals"
      [] annotation = "Enum" -> "members"
      [] OTHER -> "none"

\* the param_type of _handle_annotation, "none" for None
ParamTypeOf(annotation) ==
    CASE annotation = "LiteralBool" -> "bool"
      [] annotation = "LiteralInt" -> "int"
      [] annotation = "LiteralMixed" -> "none"
      [] annotation = "Enum" -> "EnumType"
      [] annotation = "empty" -> "_empty"
      [] annotation = "nontype" -> "none"
      [] OTHER -> annotation

BoolActionByEquality(default) ==
    IF default \in {"True", "1"} THEN "store_false" ELSE "store_true"

\* "store_false" if self.param.default is True else "store_true"
BoolAction(default) ==
    IF default = "True" THEN "store_false" ELSE "store_true"

\* if param_type is not None: action for bool, type otherwise
TypeOrAction(res, p) ==
    LET t == ParamTypeOf(p.annotation)
    IN  IF t = "none" THEN res
        ELSE IF t = "bool" THEN Put(res, "action", BoolAction(p.default))
        ELSE Put(res, "type", t)

handle_annotation(res, p) ==
    LET r1 == IF p.annotation = "Enum" /\ "default" \in DOMAIN res
              THEN Put(res, "default", EnumValue(res["default"]))
              ELSE res
        r2 == TypeOrAction(r1, p)
    IN  IF ChoicesOf(p.annotation) # "none"
        THEN Put(r2, "choices", ChoicesOf(p.annotation))
        ELSE r2

NargsAlways(res, p, required) ==
    IF p.kind = POSITIONAL_ONLY THEN Put(res, "nargs", "?") ELSE res

\* the if/else on the parameter's kind; the else branch is the statement
\* result["required"]: required, an annotation without assignment
RequiredOrNargs(res, p, required) ==
    IF p.kind = POSITIONAL_ONLY
    THEN IF ~required THEN Put(res, "nargs", "?") ELSE res
    ELSE res

as_dict(p, names, help) ==
    LET required == (p.default = "empty")
        r0 == Put(EmptyDict, "names", names)
        r1 == RequiredOrNargs(r0, p, required)
        r2 == IF ~required THEN Put(r1, "default", p.default) ELSE r1
        r3 == handle_annotation(r2, p)
    IN  Put(r3, "help", IF help = "None" THEN "" ELSE help)

StartD ==
    /\ param \in [kind : {POSITIONAL_ONLY, POSITIONAL_OR_KEYWORD, KEYWORD_ONLY},
                  default : Defaults, annotation : Annotations]
    /\ help_str \in HelpStrs
    /\ dict = EmptyDict
    /\ pcD = "start"

\* set_names on a fresh set, then as_dict
AsDict ==
    /\ pcD = "start"
    /\ dict' = as_dict(param,
                       set_names([name |-> <<"x", "s">>, kind |-> param.kind], {}).names,
                       help_str)
    /\ pcD' = "done"
    /\ UNCHANGED <<param, help_str, varsL, varsW, varsH>>

NextD == AsDict

HasDefault == param.default # "empty"

\* C3: for a parameter that is not positional-only, the dictionary carries
\* 'required', true iff the parameter has no default.
C3_RequiredRecorded ==
    (pcD = "done" /\ param.kind # POSITIONAL_ONLY) =>
        /\ "required" \in DOMAIN dict
        /\ dict["required"] = (IF HasDefault THEN "False" ELSE "True")

\* C4: a positional-only parameter carries nargs='?' iff it has a default and
\* never carries 'required'; no other kind carries nargs.
C4_OptionalPositional ==
    pcD = "done" =>
        /\ param.kind = POSITIONAL_ONLY =>
              /\ ("nargs" \in DOMAIN dict) <=> HasDefault
              /\ "nargs" \in DOMAIN dict => dict["nargs"] = "?"
              /\ "required" \notin DOMAIN dict
        /\ param.kind # POSITIONAL_ONLY => "nargs" \notin DOMAIN dict

C4_Witness ==
    /\ pcD = "done"
    /\ param.kind = POSITIONAL_ONLY
    /\ HasDefault
    /\ "nargs" \in DOMAIN dict
    /\ dict["names"] = << <<"x", "s">> >>

\* C5: a parameter whose derived type is bool records no 'type' and the action
\* store_false exactly when its default is the value True, store_true
\* otherwise; a parameter whose derived type is not bool records no action.
C5_BooleanAction ==
    pcD = "done" =>
        IF ParamTypeOf(param.annotation) = "bool"
        THEN /\ "type" \notin DOMAIN dict
             /\ "action" \in DOMAIN dict
             /\ dict["action"] =
                   (IF param.default = "True" THEN "store_false" ELSE "store_true")
        ELSE "action" \notin DOMAIN dict

\* A bool parameter whose default is 1: equal to True, and still store_true.
C5_Witness ==
    /\ pcD = "done"
    /\ param.annotation = "bool"
    /\ param.default = "1"
    /\ dict["action"] = "store_true"

-----------------------------------------------------------------------------
(* utils.str_as_arg, with textwrap.wrap as it is called there *)

NAME_HELP == <<"h", "e", "l", "p">>
NAME_DEFAULT == <<"d", "e", "f", "a", "u", "l", "t">>

ArgNames == {NAME_HELP, NAME_DEFAULT}

\* a quote of either sort, a word character, a blank
ValueChars == {"'", "\"", "a", " "}

ArgValues == SeqsUpTo(ValueChars, MaxValueLen)

Widths == (MaxWidth - 1)..MaxWidth

IsSpace(c) == c = " "

\* length of the longest prefix of t made of characters of the class of t[1]
RECURSIVE RunLen(_)
RunLen(t) ==
    IF Len(t) <= 1 THEN Len(t)
    ELSE IF IsSpace(t[2]) = IsSpace(t[1]) THEN 1 + RunLen(Tail(t)) ELSE 1

\* TextWrapper._split with break_on_hyphens=False: runs of blanks and runs of
\* anything else, alternating
RECURSIVE Chunks(_)
Chunks(t) ==
    IF t = <<>> THEN <<>>
    ELSE LET n == RunLen(t)
         IN  <<SubSeq(t, 1, n)>> \o Chunks(SubSeq(t, n + 1, Len(t)))

IsBlankChunk(c) == IsSpace(c[1])

\* how many leading chunks fit in what is left of the width
RECURSIVE Fit(_, _)
Fit(chunks, room) ==
    IF chunks = <<>> \/ Len(Head(chunks)) > room THEN 0
    ELSE 1 + Fit(Tail(chunks), room - Len(Head(chunks)))

RECURSIVE Flatten(_)
Flatten(chunks) ==
    IF chunks = <<>> THEN <<>> ELSE Head(chunks) \o Flatten(Tail(chunks))

\* TextWrapper._wrap_chunks with drop_whitespace=True, break_long_words=False,
\* no indent, no max_lines
RECURSIVE WrapChunks(_, _, _)
WrapChunks(chunks, width, lines) ==
    IF chunks = <<>> THEN lines
    ELSE LET c1 == IF IsBlankChunk(Head(chunks)) /\ lines # <<>>
                   THEN Tail(chunks) ELSE chunks
             n == Fit(c1, width)
             fitted == SubSeq(c1, 1, n)
             left == SubSeq(c1, n + 1, Len(c1))
             long == left # <<>> /\ Len(Head(left)) > width /\ fitted = <<>>
             cur == IF long THEN <<Head(left)>> ELSE fitted
             rest == IF long THEN Tail(left) ELSE left
             kept == IF cur # <<>> /\ IsBlankChunk(cur[Len(cur)])
                     THEN SubSeq(cur, 1, Len(cur) - 1) ELSE cur
         IN  WrapChunks(rest, width,
                        IF kept # <<>> THEN Append(lines, Flatten(kept)) ELSE lines)

\* textwrap.wrap(text, width, break_long_words=False, break_on_hyphens=False)
\* for a positive width
Wrap(text, width) == WrapChunks(Chunks(text), width, <<>>)

\* "\n".join(lines)
RECURSIVE JoinLines(_)
JoinLines(lines) ==
    IF lines = <<>> THEN <<>>
    ELSE IF Len(lines) = 1 THEN lines[1]
    ELSE lines[1] \o <<"\n">> \o JoinLines(Tail(lines))

Indent8 == <<" ", " ", " ", " ", " ", " ", " ", " ">>

\* the list comprehension of str_as_arg
WrappedLines(nm, quote, lines) ==
    [i \in 1..Len(lines) |->
        IF i > 1
        THEN Indent8 \o <<quote, " ">> \o lines[i] \o <<quote>>
        ELSE nm \o <<"=", "(", "\n">> \o Indent8 \o <<quote>> \o lines[i] \o <<quote>>]

\* width handed to textwrap.wrap: max_width - lead_size - 4, lead_size padded
WrapWidth(nm, mw) == mw - (Len(nm) + 1 + Max(0, 4 - Len(nm))) - 4

\* the test of the outer if
WrapRequested(nm, val, mw) == (Len(nm) + 1) + Len(val) + 1 > mw

str_as_arg(nm, val, mw) ==
    IF WrapRequested(nm, val, mw)
    THEN IF val = <<>>
         THEN [kind |-> "IndexError", text |-> <<>>]      \* value[0]
         ELSE IF val[Len(val)] # val[1]
         THEN [kind |-> "ValueError", text |-> <<>>]      \* non-repr string
         ELSE IF WrapWidth(nm, mw) <= 0
         THEN [kind |-> "ValueError", text |-> <<>>]      \* textwrap: invalid width
         ELSE [kind |-> "text",
               text |-> JoinLines(WrappedLines(nm, val[1],
                            Wrap(SubSeq(val, 2, Len(val) - 1), WrapWidth(nm, mw))))
                        \o <<"\n", " ", " ", " ", " ", ")">>]
    ELSE [kind |-> "text", text |-> nm \o <<"=">> \o val]

StartW ==
    /\ name \in ArgNames
    /\ value \in ArgValues
    /\ max_width \in Widths
    /\ out = [kind |-> "none", text |-> <<>>]
    /\ pcW = "start"

\* the pair fits: name=value
StrAsArgPlain ==
    /\ pcW = "start"
    /\ ~WrapRequested(name, value, max_width)
    /\ out' = str_as_arg(name, value, max_width)
    /\ pcW' = "done"
    /\ UNCHANGED <<name, value, max_width, varsL, varsD, varsH>>

\* the pair does not fit and wrapped text is returned
StrAsArgWrapped ==
    /\ pcW = "start"
    /\ WrapRequested(name, value, max_width)
    /\ str_as_arg(name, value, max_width).kind = "text"
    /\ out' = str_as_arg(name, value, max_width)
    /\ pcW' = "done"
    /\ UNCHANGED <<name, value, max_width, varsL, varsD, varsH>>

\* the pair does not fit and an exception is raised
StrAsArgRaises ==
    /\ pcW = "start"
    /\ WrapRequested(name, value, max_width)
    /\ str_as_arg(name, value, max_width).kind # "text"
    /\ out' = str_as_arg(name, value, max_width)
    /\ pcW' = "done"
    /\ UNCHANGED <<name, value, max_width, varsL, varsD, varsH>>

NextW == StrAsArgPlain \/ StrAsArgWrapped \/ StrAsArgRaises

\* text.split("\n")
RECURSIVE SplitLines(_)
SplitLines(t) ==
    IF \A i \in 1..Len(t) : t[i] # "\n" THEN <<t>>
    ELSE LET k == CHOOSE i \in 1..Len(t) :
                     t[i] = "\n" /\ \A j \in 1..(i - 1) : t[j] # "\n"
         IN  <<SubSeq(t, 1, k - 1)>> \o SplitLines(SubSeq(t, k + 1, Len(t)))

Quotes == {"'", "\""}

\* value starts and ends with the same quote character
IsQuotedString(val) ==
    val # <<>> /\ val[1] \in Quotes /\ val[Len(val)] = val[1]

\* the words of the quoted content all fit the width handed to textwrap.wrap
WordsFit(nm, val, mw) ==
    \A c \in Range(Chunks(SubSeq(val, 2, Len(val) - 1))) :
        Len(c) <= WrapWidth(nm, mw)

\* C6: for every key and quoted-string value that takes the wrapping branch,
\* every line of the returned text is at most max_width characters long.
\* Stated for the values on which it is easiest: no word of the content is
\* longer than the wrapping width, so no unbreakable word is involved.
C6_WrappedLinesFit ==
    (/\ pcW = "done"
     /\ WrapRequested(name, value, max_width)
     /\ IsQuotedString(value)
     /\ WordsFit(name, value, max_width)
     /\ out.kind = "text") =>
        \A i \in 1..Len(SplitLines(out.text)) :
            Len(SplitLines(out.text)[i]) <= max_width

\* C7: when wrapping is requested and the value does not start and end with
\* the same quote character, str_as_arg raises ValueError; it returns wrapped
\* text only for values that start and end with a matching quote character.
C7_NonQuotedRejected ==
    (pcW = "done" /\ WrapRequested(name, value, max_width)) =>
        /\ ~IsQuotedString(value) => out.kind = "ValueError"
        /\ out.kind = "text" => IsQuotedString(value)

-----------------------------------------------------------------------------
(* ArgparseGen._get_help_dict *)

PARAM == <<":", "p", "a", "r", "a", "m">>

LINE_BLANK == <<" ">>
LINE_X_H == PARAM \o <<" ", "x", ":", " ", "h">>
LINE_Y_G == <<" ">> \o PARAM \o <<" ", " ", "y", ":", "g">>
LINE_DASH_X_H == <<"-", " ">> \o LINE_X_H
LINE_TEXT == <<" ", " ", "g", " ">>

\* the raw lines a docstring is made of
DocLines == {LINE_BLANK, LINE_X_H, LINE_Y_G, LINE_DASH_X_H, LINE_TEXT}

\* a docstring is its lines; <<>> stands for __doc__ being None or ""
OwnDocs == SeqsUpTo(DocLines, MaxDocLines)

InitDocs == SeqsUpTo(DocLines, MaxInitLines)

\* str.strip()
RECURSIVE LStrip(_)
LStrip(t) == IF t # <<>> /\ IsSpace(t[1]) THEN LStrip(Tail(t)) ELSE t

RECURSIVE RStrip(_)
RStrip(t) ==
    IF t # <<>> /\ IsSpace(t[Len(t)]) THEN RStrip(SubSeq(t, 1, Len(t) - 1)) ELSE t

Strip(t) == RStrip(LStrip(t))

\* \w over the characters of DocLines
IsWordChar(c) == c \notin {":", " ", "-"}

\* number of leading characters of t, from position i on, that satisfy a class
RECURSIVE SpacesFrom(_, _)
SpacesFrom(t, i) ==
    IF i <= Len(t) /\ IsSpace(t[i]) THEN 1 + SpacesFrom(t, i + 1) ELSE 0

RECURSIVE WordFrom(_, _)
WordFrom(t, i) ==
    IF i <= Len(t) /\ IsWordChar(t[i]) THEN 1 + WordFrom(t, i + 1) ELSE 0

\* :param\s+(?P<name>\w+):\s* tried at position i (1-based) of t:
\* start and end as Python's m.start() and m.end()
MatchAt(t, i) ==
    LET afterParam == i + Len(PARAM)
        sp == SpacesFrom(t, afterParam)
        nameFrom == afterParam + sp
        w == WordFrom(t, nameFrom)
        colon == nameFrom + w
        hit == /\ afterParam - 1 <= Len(t)
               /\ SubSeq(t, i, afterParam - 1) = PARAM
               /\ sp >= 1
               /\ w >= 1
               /\ colon <= Len(t)
               /\ t[colon] = ":"
    IN  IF hit
        THEN [ok |-> TRUE, start |-> i - 1,
              end |-> colon + SpacesFrom(t, colon + 1),
              name |-> SubSeq(t, nameFrom, colon - 1)]
        ELSE [ok |-> FALSE, start |-> 0, end |-> 0, name |-> <<>>]

\* self.param_re.search(line): the leftmost match; with "^" only position 0
Search(t, anch) ==
    LET hits == {i \in 1..Len(t) : (anch => i = 1) /\ MatchAt(t, i).ok}
    IN  IF hits = {} THEN MatchAt(<<>>, 1)
        ELSE MatchAt(t, CHOOSE i \in hits : \A k \in hits : i <= k)

FreshScan == [result |-> EmptyDict, curr_name |-> <<>>, curr_help |-> <<>>]

\* save_current(): result[curr_name] = curr_help if both are non-empty;
\* curr_name and curr_help are left as they are
save_current(st) ==
    IF st.curr_name # <<>> /\ st.curr_help # <<>>
    THEN [st EXCEPT !.result = Put(st.result, st.curr_name, st.curr_help)]
    ELSE st

\* line[m.end() - m.start():]
HelpAfterMarker(line, m) == SubSeq(line, (m.end - m.start) + 1, Len(line))

LineKind(raw, st, anch) ==
    LET line == Strip(raw)
    IN  IF line = <<>> THEN "blank"
        ELSE IF Search(line, anch).ok THEN "marker"
        ELSE IF st.curr_name # <<>> THEN "continuation"
        ELSE "ignored"

\* the body of the for loop, for one line of the docstring
ScanLine(st, raw, anch) ==
    LET line == Strip(raw)
        m == Search(line, anch)
    IN  IF line = <<>> THEN save_current(st)
        ELSE IF m.ok
             THEN [save_current(st) EXCEPT
                      !.curr_name = m.name,
                      !.curr_help = HelpAfterMarker(line, m)]
        ELSE IF st.curr_name # <<>>
             THEN [st EXCEPT !.curr_help =
                      st.curr_help
                      \o (IF st.curr_help # <<>> /\ st.curr_help[Len(st.curr_help)] = " "
                          THEN <<>> ELSE <<" ">>)
                      \o line]
        ELSE st

StartH ==
    /\ anchored \in BOOLEAN
    /\ isclass \in BOOLEAN
    /\ own_doc \in OwnDocs
    /\ init_doc \in (IF isclass THEN InitDocs ELSE {<<>>})
    /\ frame = "own"
    /\ doc = own_doc
    /\ idx = 0
    /\ scan = FreshScan
    /\ own_result = EmptyDict
    /\ pcH = "start"

constH == <<anchored, isclass, own_doc, init_doc>>

\* return result, to the caller when this is the call on obj.__init__:
\* result.update(self._get_help_dict(obj))
Return ==
    /\ scan' = IF frame = "init"
               THEN [scan EXCEPT !.result = Update(own_result, scan.result)]
               ELSE scan
    /\ frame' = "own"
    /\ pcH' = "done"
    /\ UNCHANGED <<doc, idx, own_result, constH, varsL, varsD, varsW>>

\* if not obj.__doc__: return result
ReturnNoDoc ==
    /\ pcH = "start"
    /\ doc = <<>>
    /\ Return

BeginScan ==
    /\ pcH = "start"
    /\ doc # <<>>
    /\ pcH' = "scan"
    /\ UNCHANGED <<scan, frame, doc, idx, own_result, constH, varsL, varsD, varsW>>

\* if not line: save_current()
BlankLine ==
    /\ pcH = "scan"
    /\ idx < Len(doc)
    /\ LineKind(doc[idx + 1], scan, anchored) = "blank"
    /\ scan' = ScanLine(scan, doc[idx + 1], anchored)
    /\ idx' = idx + 1
    /\ UNCHANGED <<frame, doc, own_result, pcH, constH, varsL, varsD, varsW>>

\* elif m := self.param_re.search(line): a new buffer
MarkerLine ==
    /\ pcH = "scan"
    /\ idx < Len(doc)
    /\ LineKind(doc[idx + 1], scan, anchored) = "marker"
    /\ scan' = ScanLine(scan, doc[idx + 1], anchored)
    /\ idx' = idx + 1
    /\ UNCHANGED <<frame, doc, own_result, pcH, constH, varsL, varsD, varsW>>

\* elif curr_name: the line is appended to curr_help
ContinuationLine ==
    /\ pcH = "scan"
    /\ idx < Len(doc)
    /\ LineKind(doc[idx + 1], scan, anchored) = "continuation"
    /\ scan' = ScanLine(scan, doc[idx + 1], anchored)
    /\ idx' = idx + 1
    /\ UNCHANGED <<frame, doc, own_result, pcH, constH, varsL, varsD, varsW>>

\* a text line while no parameter is current: nothing happens
IgnoredLine ==
    /\ pcH = "scan"
    /\ idx < Len(doc)
    /\ LineKind(doc[idx + 1], scan, anchored) = "ignored"
    /\ scan' = ScanLine(scan, doc[idx + 1], anchored)
    /\ idx' = idx + 1
    /\ UNCHANGED <<frame, doc, own_result, pcH, constH, varsL, varsD, varsW>>

\* the save_current() after the loop
EndOfDoc ==
    /\ pcH = "scan"
    /\ idx = Len(doc)
    /\ scan' = save_current(scan)
    /\ pcH' = "scanned"
    /\ UNCHANGED <<frame, doc, idx, own_result, constH, varsL, varsD, varsW>>

\* if inspect.isclass(obj): ... self._get_help_dict(obj.__init__)
CallOnInit ==
    /\ pcH = "scanned"
    /\ frame = "own"
    /\ isclass
    /\ own_result' = scan.result
    /\ frame' = "init"
    /\ doc' = init_doc
    /\ idx' = 0
    /\ scan' = FreshScan
    /\ pcH' = "start"
    /\ UNCHANGED <<constH, varsL, varsD, varsW>>

ReturnResult ==
    /\ pcH = "scanned"
    /\ ~(frame = "own" /\ isclass)
    /\ Return

NextH ==
    \/ ReturnNoDoc \/ BeginScan
    \/ BlankLine \/ MarkerLine \/ ContinuationLine \/ IgnoredLine
    \/ EndOfDoc \/ CallOnInit \/ ReturnResult

\* the loop run over some lines from a fresh buffer
RECURSIVE ScanLines(_, _)
ScanLines(lines, anch) ==
    IF lines = <<>> THEN FreshScan
    ELSE ScanLine(ScanLines(SubSeq(lines, 1, Len(lines) - 1), anch),
                  lines[Len(lines)], anch)

\* the help mapping of one docstring on its own
HelpOfDoc(lines, anch) ==
    IF lines = <<>> THEN EmptyDict ELSE save_current(ScanLines(lines, anch)).result

IsBlankLine(raw) == Strip(raw) = <<>>

IsMarkerLine(raw) == Search(Strip(raw), anchored).ok

\* C8: a blank line commits the pending pair and clears the buffer: a
\* non-blank, non-marker line after a blank line and before the next marker
\* line does not change the help stored for the parameter that was active
\* before the blank line.
C8_BlankLineEndsHelp ==
    pcH \in {"scan", "scanned"} =>
        \A j \in 1..idx :
            LET before == ScanLines(SubSeq(doc, 1, j), anchored)
            IN  (/\ IsBlankLine(doc[j])
                 /\ before.curr_name \in DOMAIN before.result
                 /\ \A k \in (j + 1)..idx : ~IsMarkerLine(doc[k]))
                => /\ before.curr_name \in DOMAIN scan.result
                   /\ scan.result[before.curr_name] = before.result[before.curr_name]

\* C9: for a class, the constructor's help mapping is layered over the
\* mapping of the class's own docstring: a name in both has the constructor's
\* text, a name in only one keeps that one's text.
C9_ConstructorLayered ==
    (pcH = "done" /\ isclass) =>
        LET cls == HelpOfDoc(own_doc, anchored)
            ctor == HelpOfDoc(init_doc, anchored)
        IN  /\ DOMAIN scan.result = (DOMAIN cls) \cup (DOMAIN ctor)
            /\ \A n \in DOMAIN scan.result :
                  scan.result[n] = IF n \in DOMAIN ctor THEN ctor[n] ELSE cls[n]

\* C10: a line on which the marker pattern matches, wherever the match begins,
\* commits the pending buffer and starts a buffer keyed by the captured name
\* whose help is exactly the part of the line after the end of the match.
C10_HelpFollowsMarker ==
    (pcH = "scan" /\ idx >= 1 /\ IsMarkerLine(doc[idx])) =>
        LET line == Strip(doc[idx])
            m == Search(line, anchored)
            before == ScanLines(SubSeq(doc, 1, idx - 1), anchored)
        IN  /\ scan.result = save_current(before).result
            /\ scan.curr_name = m.name
            /\ scan.curr_help = SubSeq(line, m.end + 1, Len(line))

-----------------------------------------------------------------------------
(* Specifications *)

InitL == StartL /\ IdleD /\ IdleW /\ IdleH

SpecL == InitL /\ [][NextL]_vars

InitD == IdleL /\ StartD /\ IdleW /\ IdleH

InitW == IdleL /\ IdleD /\ StartW /\ IdleH

SpecW == InitW /\ [][NextW]_vars

InitH == IdleL /\ IdleD /\ IdleW /\ StartH

SpecH == InitH /\ [][NextH]_vars

Init == InitL \/ InitD \/ InitW \/ InitH

Next == NextL \/ NextD \/ NextW \/ NextH

Spec == Init /\ [][Next]_vars

SpecD == InitD /\ [][NextD]_vars

=============================================================================
